---- MODULE Spec2Model ----
(***************************************************************************)
(* scripts/bootstrap-admin.js: the admin-account bootstrap of camodick.    *)
(* One run reads three environment inputs, validates them, loads the       *)
(* JSON user store, finds or creates the record of the given username,     *)
(* gives it a fresh salted credential and the admin invariants, and        *)
(* replaces the store through a temp file and a rename.                    *)
(*                                                                         *)
(* Strings are sequences of one-character strings, so that trim, length,   *)
(* character classes, indexOf and slice are computed as the code computes  *)
(* them.  JSON / JavaScript values are records [t, s]: a type tag and the  *)
(* text String(value) yields (for an array: its one-character items).      *)
(* A property that is absent and a property that holds undefined are the   *)
(* same value Undef: the code never tells them apart, and JSON.stringify   *)
(* writes neither.                                                         *)
(***************************************************************************)
EXTENDS Integers, Sequences, FiniteSets, TLC

\* ------------------------------------------------------------- bounds
\* How many runs of the script follow one another on a store that starts missing
\* or empty; a store that starts with content some other writer left sees one
\* run fewer.
MaxRuns == 2

\* ------------------------------------------------------------ strings
Rep(c, n) == [i \in 1..n |-> c]

UpperChars == <<"A","B","C","D","E","F","G","H","I","J","K","L","M",
                "N","O","P","Q","R","S","T","U","V","W","X","Y","Z">>
LowerChars == <<"a","b","c","d","e","f","g","h","i","j","k","l","m",
                "n","o","p","q","r","s","t","u","v","w","x","y","z">>
Digits == {"0","1","2","3","4","5","6","7","8","9"}
Range(f) == {f[i] : i \in DOMAIN f}
\* \s of a JavaScript regular expression, and what trim() removes
WhiteSpace == {" ", "\t", "\n", "\r"}

SetMin(S) == CHOOSE x \in S : \A y \in S : x <= y
SetMax(S) == CHOOSE x \in S : \A y \in S : x >= y

\* String.prototype.trim
Trim(s) ==
  LET keep == {i \in 1..Len(s) : s[i] \notin WhiteSpace}
  IN  IF keep = {} THEN <<>> ELSE SubSeq(s, SetMin(keep), SetMax(keep))

\* String.prototype.toLowerCase
ToLowerChar(c) ==
  IF \E i \in 1..26 : UpperChars[i] = c
  THEN LowerChars[CHOOSE i \in 1..26 : UpperChars[i] = c]
  ELSE c
ToLowerCase(s) == [i \in 1..Len(s) |-> ToLowerChar(s[i])]

\* String.prototype.indexOf of one character, 0-based, -1 when absent
IndexOf(s, c) ==
  LET hits == {i \in 1..Len(s) : s[i] = c}
  IN  IF hits = {} THEN -1 ELSE SetMin(hits) - 1

\* String.prototype.includes of a one- or two-character needle
Includes(s, needle) ==
  \E i \in 1..(Len(s) - Len(needle) + 1) :
     SubSeq(s, i, i + Len(needle) - 1) = needle

\* /^[...]+$/.test(s): non-empty and every character in the class
AllIn(s, class) == Len(s) > 0 /\ \A i \in 1..Len(s) : s[i] \in class

\* ------------------------------------------------------------- values
V(t, s) == [t |-> t, s |-> s]
Undef == V("undef", <<>>)
Null  == V("null", <<>>)
Str(s) == V("str", s)
Num(s) == V("num", s)
True  == V("bool", <<"t","r","u","e">>)
False == V("bool", <<"f","a","l","s","e">>)
Arr(items) == V("arr", items)
\* a plain object, and an object whose own toString and valueOf properties
\* are not functions (JSON can hold both)
Obj == V("obj", <<>>)
ObjNoPrimitive == V("objx", <<>>)

S_undefined == <<"u","n","d","e","f","i","n","e","d">>
S_null == <<"n","u","l","l">>
S_object == <<"[","o","b","j","e","c","t"," ","O","b","j","e","c","t","]">>

RECURSIVE Join(_)
Join(items) ==
  IF Len(items) = 0 THEN <<>>
  ELSE IF Len(items) = 1 THEN <<items[1]>>
  ELSE <<items[1], ",">> \o Join(Tail(items))

\* ToBoolean
Truthy(v) ==
  CASE v.t \in {"undef", "null"} -> FALSE
    [] v.t = "bool" -> v = True
    [] v.t = "num" -> v.s # <<"0">>
    [] v.t = "str" -> v.s # <<>>
    [] OTHER -> TRUE

\* String(v) throws a TypeError for an object with no usable toString/valueOf
StringThrows(v) == v.t = "objx"

\* String(v)
JsString(v) ==
  CASE v.t = "undef" -> S_undefined
    [] v.t = "null" -> S_null
    [] v.t = "arr" -> Join(v.s)
    [] v.t = "obj" -> S_object
    [] OTHER -> v.s

\* ---------------------------------------------------------- validator
UsernameMin == 3
UsernameMax == 32
PasswordMin == 8
PasswordMax == 256
EmailMax == 254
LocalMax == 64
DomainMin == 3

UsernameChars == Range(UpperChars) \cup Range(LowerChars) \cup Digits \cup {"_", ".", "-"}
\* the grave accent of the local-part class is written "grave": the TLA+ lexer
\* does not take that character inside a string
LocalChars == Range(LowerChars) \cup Digits \cup
  {".","!","#","$","%","&","'","*","+","/","=","?","^","_","grave","{","|","}","~","-"}
DomainChars == Range(LowerChars) \cup Digits \cup {".", "-"}

\* raw is a string here; String(raw || "") is raw
cleanUsername(raw) ==
  LET u == Trim(raw)
  IN  IF Len(u) < UsernameMin \/ Len(u) > UsernameMax THEN Null
      ELSE IF ~AllIn(u, UsernameChars) THEN Null
      ELSE Str(u)

\* A faulty variant: the upper length bound is not checked.
normalizePassword_noMax(raw) == IF Len(raw) < PasswordMin THEN Null ELSE Str(raw)

normalizePassword(raw) ==
  IF Len(raw) < PasswordMin \/ Len(raw) > PasswordMax THEN Null ELSE Str(raw)

\* A faulty variant: two dots in a row in the domain are let through.
normalizeEmail_doubleDot(raw) ==
  LET e == ToLowerCase(Trim(raw))
      at == IndexOf(e, "@")
      local == SubSeq(e, 1, at)
      domain == SubSeq(e, at + 2, Len(e))
  IN  IF e = <<>> THEN Null
      ELSE IF Len(e) > EmailMax THEN Null
      ELSE IF \E i \in 1..Len(e) : e[i] \in WhiteSpace THEN Null
      ELSE IF at <= 0 \/ at = Len(e) - 1 THEN Null
      ELSE IF Len(local) > LocalMax THEN Null
      ELSE IF Len(domain) < DomainMin THEN Null
      ELSE IF ~Includes(domain, <<".">>) THEN Null
      ELSE IF ~AllIn(local, LocalChars) THEN Null
      ELSE IF ~AllIn(domain, DomainChars) THEN Null
      ELSE IF domain[1] = "." \/ domain[Len(domain)] = "." THEN Null
      ELSE Str(e)

normalizeEmail(raw) ==
  LET e == ToLowerCase(Trim(raw))
      at == IndexOf(e, "@")
      local == SubSeq(e, 1, at)
      domain == SubSeq(e, at + 2, Len(e))
  IN  IF e = <<>> THEN Null
      ELSE IF Len(e) > EmailMax THEN Null
      ELSE IF \E i \in 1..Len(e) : e[i] \in WhiteSpace THEN Null
      ELSE IF at <= 0 \/ at = Len(e) - 1 THEN Null
      ELSE IF Len(local) > LocalMax THEN Null
      ELSE IF Len(domain) < DomainMin THEN Null
      ELSE IF ~Includes(domain, <<".">>) THEN Null
      ELSE IF ~AllIn(local, LocalChars) THEN Null
      ELSE IF ~AllIn(domain, DomainChars) THEN Null
      ELSE IF domain[1] = "." \/ domain[Len(domain)] = "." THEN Null
      ELSE IF Includes(domain, <<".", ".">>) THEN Null
      ELSE Str(e)

\* -------------------------------------------------------- user store
Fields == {"id", "username", "email", "role", "salt", "passHash", "quota",
           "unlocked", "contentTokens", "disabled", "accessUntilMs", "createdAt"}
NoProps == [f \in Fields |-> Undef]

\* An element of the users array: the value it is (v) and, for an object or an
\* array, the properties it carries (p).
Element(v, props) == [v |-> v, p |-> props]
Prim(v) == Element(v, NoProps)
Record(props) == Element(Obj, props)

\* x.f: undefined on a primitive
Prop(x, f) == IF x.v.t \in {"obj", "arr"} THEN x.p[f] ELSE Undef

\* A top-level JSON value: what it is (v), the type of its users property (ut),
\* the users array when it is one, and its other top-level keys.
Top(v, ut, users, other) == [v |-> v, ut |-> ut, users |-> users, other |-> other]
EmptyDb == Top(Obj, "arr", <<>>, <<>>)
Collection(users) == Top(Obj, "arr", users, <<>>)

\* parsed && Array.isArray(parsed.users)
IsCollection(parsed) == Truthy(parsed.v) /\ parsed.v.t = "obj" /\ parsed.ut = "arr"

\* JSON.stringify(db, null, 2) read back: an array is written as its items, the
\* properties set on it are not written.
SerializeElement(x) == IF x.v.t = "arr" THEN Element(x.v, NoProps) ELSE x
Serialize(d) == [d EXCEPT !.users = [i \in DOMAIN d.users |-> SerializeElement(d.users[i])]]

\* ------------------------------------------------------------- files
\* The serialized text reaches the disk in SerChunks pieces, the last of which is
\* the trailing newline. A file holding fewer than SerChunks - 1 of them is a
\* proper prefix that is not JSON ("partial": only its length is kept); one
\* holding SerChunks - 1 is the complete document without its newline.
SerChunks == 2

NoFile == [st |-> "absent", val |-> EmptyDb, written |-> 0]
Garbage == [st |-> "garbage", val |-> EmptyDb, written |-> 0]
TextFile(val, n) ==
  IF n < SerChunks - 1 THEN [st |-> "partial", val |-> EmptyDb, written |-> n]
  ELSE [st |-> "text", val |-> val, written |-> n]
FullFile(val) == TextFile(val, SerChunks)

\* JSON.parse(raw) throws a SyntaxError
ParseThrows(file) == file.st \in {"garbage", "partial"}

\* A path is the sequence of its parts.
USERS_FILE == <<"users.json">>
\* A faulty variant: the text is written over the target itself.
TmpPath_inPlace(path) == path
\* the tmp of line 124: USERS_FILE followed by ".tmp"
TmpPath(path) == path \o <<".tmp">>
Paths == {<<"users.json">>, <<"users.json", ".tmp">>}

\* -------------------------------------------------------- main: steps
\* A faulty variant: whatever parses is taken as the collection.
loadDb_noShapeCheck(outcome, file) ==
  IF outcome # "ok" \/ ParseThrows(file) THEN EmptyDb ELSE file.val

\* The try block of lines 80-86. outcome is what readFile did: "ok", or the
\* error it threw ("ENOENT", "EACCES"); every error is caught.
loadDb(outcome, file) ==
  IF outcome # "ok" THEN EmptyDb
  ELSE IF ParseThrows(file) THEN EmptyDb
  ELSE IF IsCollection(file.val) THEN file.val
  ELSE EmptyDb

\* x && x.username
LookupKey(x) == IF Truthy(x.v) THEN Prop(x, "username") ELSE x.v

Matches(x, username) == JsString(LookupKey(x)) = username

\* db.users.find(...): the index of the first match (0: none), evaluated left to
\* right, so an element whose String() throws ahead of the first match throws.
FirstMatch(users, username) ==
  LET hits == {i \in 1..Len(users) : ~StringThrows(LookupKey(users[i])) /\ Matches(users[i], username)}
  IN  IF hits = {} THEN 0 ELSE SetMin(hits)
FindThrows(d, username) ==
  \/ d.ut # "arr"
  \/ LET m == FirstMatch(d.users, username)
         upto == IF m = 0 THEN Len(d.users) ELSE m
     IN  \E i \in 1..upto : StringThrows(LookupKey(d.users[i]))
\* A faulty variant: the lookup finds nothing.
findUser_none(d, username) == 0
\* ... || null: a falsy element that matched is no target
findUser(d, username) ==
  LET m == FirstMatch(d.users, username)
  IN  IF m # 0 /\ Truthy(d.users[m].v) THEN m ELSE 0

\* salt.toString("hex") and derived.toString("hex")
HexSalt(salt) == Str(<<salt>>)
scryptAsync(password, salt) == Str(<<"scrypt", salt>> \o password)

\* lines 95-108
newUser(id, username, email, salt, derived, now) ==
  Record([f \in Fields |->
    CASE f = "id" -> id
      [] f = "username" -> username
      [] f = "email" -> IF Truthy(email) THEN email ELSE Undef
      [] f = "role" -> Str(<<"admin">>)
      [] f = "salt" -> HexSalt(salt)
      [] f = "passHash" -> derived
      [] f = "quota" -> Num(<<"-", "1">>)
      [] f = "unlocked" -> Arr(<<>>)
      [] f = "contentTokens" -> Arr(<<>>)
      [] f = "disabled" -> False
      [] f = "accessUntilMs" -> Null
      [] f = "createdAt" -> now])

\* lines 111-121; a property assignment on a primitive throws in strict mode
UpdateThrows(x) == x.v.t \notin {"obj", "arr"}
\* A faulty variant: the email is assigned whether or not one was supplied.
updateEmail_always(old, email) == email
updateEmail(old, email) == IF Truthy(email) THEN email ELSE old
updateSalt(old, salt) == HexSalt(salt)
\* A faulty variant: createdAt is set on every update.
updateCreatedAt_always(old, now) == now
updateCreatedAt(old, now) == IF ~Truthy(old) THEN now ELSE old
updateUser(x, username, email, salt, derived, now) ==
  Element(x.v, [f \in Fields |->
    CASE f = "id" -> x.p[f]
      [] f = "username" -> username
      [] f = "email" -> updateEmail(x.p[f], email)
      [] f = "role" -> Str(<<"admin">>)
      [] f = "salt" -> updateSalt(x.p[f], salt)
      [] f = "passHash" -> derived
      [] f = "quota" -> IF x.p[f].t # "num" THEN Num(<<"-", "1">>) ELSE x.p[f]
      [] f = "unlocked" -> IF x.p[f].t # "arr" THEN Arr(<<>>) ELSE x.p[f]
      [] f = "contentTokens" -> IF x.p[f].t # "arr" THEN Arr(<<>>) ELSE x.p[f]
      [] f = "disabled" -> False
      [] f = "accessUntilMs" -> Null
      [] f = "createdAt" -> updateCreatedAt(x.p[f], now)])

\* lines 94-122 on the collection: i is the target's index, 0 for none
upsert(d, i, id, username, email, salt, derived, now) ==
  IF i = 0
  THEN [d EXCEPT !.users = Append(@, newUser(id, username, email, salt, derived, now))]
  ELSE [d EXCEPT !.users[i] = updateUser(@, username, email, salt, derived, now)]

\* ------------------------------------------------------------- inputs
S_bob == <<"b","o","b">>
S_alice == <<"a","l","i","c","e">>
\* process.env.ADMIN_USER || process.env.ADMIN_USERNAME || "": the value that wins
RawUsers == { <<>>, <<" ", " ">>, <<"a","b">>, <<"b","!","b">>, Rep("a", UsernameMax + 1),
              <<" ">> \o S_bob \o <<" ">>, S_undefined }
RawPasswords == { <<>>, Rep("x", PasswordMin - 1), Rep("x", PasswordMax + 1),
                  <<"p","a","s","s"," ","w","o","r">> }
RawEmails == { <<>>, <<" ", "\t">>, <<"n","o","t","-","a","n","-","e","m","a","i","l">>,
               <<" ","A","d","@","E","x",".","C","o"," ">> }
Env(user, pass, email) == [user |-> user, pass |-> pass, email |-> email]
NoEnv == Env(<<>>, <<>>, <<>>)

\* lines 13-15: String(process.env.X || "") and, for two of the three, trim()
readUser(raw) == Trim(raw)
readPass(raw) == raw
\* A faulty variant: ADMIN_EMAIL is taken as given.
readEmail_asGiven(raw) == raw
readEmail(raw) == Trim(raw)

\* what the validator rules of the specification accept, stated on the raw input
OkUser(raw) ==
  LET t == Trim(raw)
  IN  Len(t) >= 3 /\ Len(t) <= 32 /\ \A i \in 1..Len(t) : t[i] \in UsernameChars
OkPassword(raw) == Len(raw) >= 8 /\ Len(raw) <= 256
\* an email counts as provided when something is left of it after trimming
Provided(raw) == Trim(raw) # <<>>
OkEmail(raw) ==
  LET e == ToLowerCase(Trim(raw))
      ats == {i \in 1..Len(e) : e[i] = "@"}
      at == CHOOSE i \in ats : TRUE
      local == SubSeq(e, 1, at - 1)
      domain == SubSeq(e, at + 1, Len(e))
  IN  /\ Len(e) <= 254
      /\ \A i \in 1..Len(e) : e[i] \notin WhiteSpace
      /\ Cardinality(ats) = 1
      /\ Len(local) >= 1 /\ Len(local) <= 64
      /\ \A i \in 1..Len(local) : local[i] \in LocalChars
      /\ Len(domain) >= 3
      /\ \E i \in 1..Len(domain) : domain[i] = "."
      /\ \A i \in 1..(Len(domain) - 1) : ~(domain[i] = "." /\ domain[i + 1] = ".")
      /\ domain[1] # "." /\ domain[Len(domain)] # "."
OkEnv(e) == OkUser(e.user) /\ OkPassword(e.pass) /\ (Provided(e.email) => OkEmail(e.email))
GoodEnv == { e \in [user : RawUsers, pass : RawPasswords, email : RawEmails] :
               OkUser(e.user) /\ OkPassword(e.pass) }
\* The environments a run is started with: every combination with a usable
\* username and password, and every bad username or password beside otherwise
\* empty or usable fields.
Envs ==
  GoodEnv
  \cup { Env(us, pw, <<>>) : us \in RawUsers, pw \in {<<>>, <<"p","a","s","s"," ","w","o","r">>} }
  \cup { Env(S_undefined, pw, em) : pw \in RawPasswords, em \in {<<>>, <<"n","o","t","-","a","n","-","e","m","a","i","l">>} }

\* crypto.randomUUID(), new Date().toISOString() and crypto.randomBytes(16) of
\* the n-th run: values no earlier run and no stored record holds
Tok(prefix, n) == <<prefix, ToString(n)>>
randomUUID(n) == Str(Tok("uuid", n))
toISOString(n) == Str(Tok("time", n))
randomBytes(n) == ToString(n)

\* ------------------------------------------------------ initial stores
Props(username, rest) ==
  [f \in Fields |-> IF f = "username" THEN username
                    ELSE IF f \in DOMAIN rest THEN rest[f] ELSE Undef]
aliceRecord ==
  Record(Props(Str(S_alice),
    [id |-> Str(<<"uuid", "a">>), role |-> Str(<<"user">>), salt |-> Str(<<"a">>),
     passHash |-> Str(<<"scrypt", "a">>), quota |-> Num(<<"5">>), unlocked |-> Arr(<<"x">>),
     contentTokens |-> Arr(<<>>), disabled |-> False, accessUntilMs |-> Null,
     createdAt |-> Str(<<"time", "a">>)]))
\* a complete record of bob that is a disabled, expiring plain user
bobRecord ==
  Record(Props(Str(S_bob),
    [id |-> Str(<<"uuid", "b">>), email |-> Str(<<"o","@","l",".","d">>),
     role |-> Str(<<"user">>), salt |-> Str(<<"b">>), passHash |-> Str(<<"scrypt", "b">>),
     quota |-> Num(<<"0">>), unlocked |-> Arr(<<"x", "y">>), contentTokens |-> Arr(<<"z">>),
     disabled |-> True, accessUntilMs |-> Num(<<"9">>), createdAt |-> Str(<<"time", "b">>)]))
\* a record of bob with malformed and missing fields
bobBroken ==
  Record(Props(Str(S_bob),
    [id |-> Str(<<"uuid", "c">>), quota |-> Str(<<"7">>), unlocked |-> Null,
     disabled |-> True, createdAt |-> Str(<<>>)]))
\* a record without a username
namelessRecord == Record(Props(Undef, [id |-> Str(<<"uuid", "d">>), role |-> Str(<<"user">>)]))
\* a record whose username is an object String() cannot convert
oddRecord == Record(Props(ObjNoPrimitive, [id |-> Str(<<"uuid", "e">>)]))
\* a record of bob whose createdAt is a number, not a timestamp
bobDated ==
  Record(Props(Str(S_bob),
    [id |-> Str(<<"uuid", "f">>), role |-> Str(<<"admin">>), quota |-> Num(<<"3">>),
     unlocked |-> Arr(<<>>), contentTokens |-> Arr(<<>>), createdAt |-> Num(<<"5">>)]))
\* two records of a user named "undefined"
undefRecord ==
  Record(Props(Str(S_undefined),
    [id |-> Str(<<"uuid", "g">>), role |-> Str(<<"user">>), createdAt |-> Str(<<"time", "g">>)]))
undefTwin ==
  Record(Props(Str(S_undefined),
    [id |-> Str(<<"uuid", "h">>), role |-> Str(<<"user">>), createdAt |-> Str(<<"time", "h">>)]))

InitialStores ==
  { NoFile, Garbage,
    FullFile(Top(Null, "undef", <<>>, <<>>)),
    FullFile(Top(Arr(<<>>), "undef", <<>>, <<>>)),
    FullFile(Top(Obj, "undef", <<>>, <<"version">>)),
    FullFile(Top(Obj, "num", <<>>, <<>>)),
    FullFile(EmptyDb),
    FullFile(Top(Obj, "arr", <<aliceRecord, bobRecord>>, <<"version">>)),
    FullFile(Collection(<<bobBroken, namelessRecord, bobRecord>>)),
    FullFile(Collection(<<Prim(Null), Prim(Num(<<"5">>)), aliceRecord>>)),
    FullFile(Collection(<<Prim(Arr(<<"x">>)), aliceRecord>>)),
    FullFile(Collection(<<bobDated, aliceRecord, oddRecord>>)),
    FullFile(Collection(<<namelessRecord, undefRecord, undefTwin>>)) }

\* -------------------------------------------------------------- state
Procs == 1..MaxRuns

VARIABLES
  dir,      \* whether DATA_DIR exists
  fs,       \* the file at each path of DATA_DIR
  pc,       \* where each run of the script is
  rawEnv,   \* process.env of the run
  ADMIN,    \* ADMIN_USER, ADMIN_PASS, ADMIN_EMAIL (lines 13-15)
  main,     \* the locals of main(), and the descriptor writeFile holds: the
            \* path its file is at now (fd), how much it has written (off),
            \* and whether another writer has touched that file since (dirty)
  msg,      \* what the run wrote to the error stream when it exited
  seen      \* what the run met: the files and the directory at its start,
            \* whether its inputs satisfy the validator's contract, what
            \* readFile did, the collection as loaded, and the place of its
            \* rename among the renames done (order, 0: none)

vars == <<dir, fs, pc, rawEnv, ADMIN, main, msg, seen>>

NoMain == [username |-> Null, password |-> Null, email |-> Null, db |-> EmptyDb,
           now |-> Undef, u |-> 0, salt |-> "", derived |-> Undef,
           fd |-> <<>>, off |-> 0, dirty |-> FALSE]
NoSeen == [fs |-> [q \in Paths |-> NoFile], dir |-> FALSE, okEnv |-> FALSE,
           read |-> "", loaded |-> EmptyDb, order |-> 0]
\* what is left of seen when process p is gone
Forget(p) == [seen EXCEPT ![p].read = "", ![p].loaded = EmptyDb]

Running == {"check", "validate", "mkdir", "load", "find", "derive", "upsert",
            "write", "writing", "rename"}
Final == {"done", "exit1", "killed"}

Init ==
  /\ dir \in BOOLEAN
  /\ \E store \in InitialStores :
       /\ ~dir => store = NoFile
       /\ fs = [q \in Paths |-> IF q = USERS_FILE THEN store ELSE NoFile]
  /\ pc = [p \in Procs |-> "idle"]
  /\ rawEnv = [p \in Procs |-> NoEnv]
  /\ ADMIN = [p \in Procs |-> NoEnv]
  /\ main = [p \in Procs |-> NoMain]
  /\ msg = [p \in Procs |-> ""]
  /\ seen = [p \in Procs |-> NoSeen]

\* -------------------------------------------------------------- exits
\* usage(msg): the message, then process.exit(1); nothing else is touched
usage(p, m) ==
  /\ pc' = [pc EXCEPT ![p] = "exit1"]
  /\ msg' = [msg EXCEPT ![p] = m]
  /\ main' = [main EXCEPT ![p] = NoMain]
  /\ rawEnv' = [rawEnv EXCEPT ![p] = NoEnv]
  /\ ADMIN' = [ADMIN EXCEPT ![p] = NoEnv]
  /\ UNCHANGED <<dir, fs, seen>>

\* main().catch: the error is logged and the process exits 1; its memory is gone
fatal(p, err) ==
  /\ pc' = [pc EXCEPT ![p] = "exit1"]
  /\ msg' = [msg EXCEPT ![p] = err]
  /\ main' = [main EXCEPT ![p] = NoMain]
  /\ rawEnv' = [rawEnv EXCEPT ![p] = NoEnv]
  /\ ADMIN' = [ADMIN EXCEPT ![p] = NoEnv]
  /\ seen' = Forget(p)

\* ------------------------------------------------------------ actions
\* The stores a first installation starts from
FreshStores == {NoFile, FullFile(EmptyDb)}
RunsFrom(store) == IF store \in FreshStores THEN MaxRuns ELSE MaxRuns - 1

\* The script is started: lines 13-15 read the environment. Runs are sequential.
Start ==
  \E p \in Procs, e \in Envs :
    /\ pc[p] = "idle"
    /\ \A q \in Procs : q < p => pc[q] \in Final
    /\ p > 1 => p <= RunsFrom(seen[1].fs[USERS_FILE])
    /\ rawEnv' = [rawEnv EXCEPT ![p] = e]
    /\ ADMIN' = [ADMIN EXCEPT ![p] = Env(readUser(e.user), readPass(e.pass), readEmail(e.email))]
    /\ seen' = [seen EXCEPT ![p] = [NoSeen EXCEPT !.fs = fs, !.dir = dir, !.okEnv = OkEnv(e)]]
    /\ pc' = [pc EXCEPT ![p] = "check"]
    /\ UNCHANGED <<dir, fs, main, msg>>

\* lines 24-25
CheckEnv ==
  \E p \in Procs :
    /\ pc[p] = "check"
    /\ IF ADMIN[p].user = <<>> THEN usage(p, "Missing ADMIN_USER.")
       ELSE IF ADMIN[p].pass = <<>> THEN usage(p, "Missing ADMIN_PASS.")
       ELSE /\ pc' = [pc EXCEPT ![p] = "validate"]
            /\ UNCHANGED <<dir, fs, rawEnv, ADMIN, main, msg, seen>>

\* lines 69-74
Validate ==
  \E p \in Procs :
    /\ pc[p] = "validate"
    /\ LET username == cleanUsername(ADMIN[p].user)
           password == normalizePassword(ADMIN[p].pass)
           email == IF ADMIN[p].email # <<>> THEN normalizeEmail(ADMIN[p].email) ELSE Null
       IN  IF ~Truthy(username)
             THEN usage(p, "Invalid ADMIN_USER (3-32 chars, letters/digits/._- only).")
           ELSE IF ~Truthy(password) THEN usage(p, "Invalid ADMIN_PASS (min 8 chars).")
           ELSE IF ADMIN[p].email # <<>> /\ ~Truthy(email) THEN usage(p, "Invalid ADMIN_EMAIL.")
           ELSE /\ main' = [main EXCEPT ![p].username = username, ![p].password = password,
                                        ![p].email = email]
                /\ pc' = [pc EXCEPT ![p] = "mkdir"]
                /\ UNCHANGED <<dir, fs, rawEnv, ADMIN, msg, seen>>

\* line 76: mkdir creates the directory, or fails and the failure is swallowed
Mkdir ==
  \E p \in Procs, ok \in BOOLEAN :
    /\ pc[p] = "mkdir"
    /\ dir' = (dir \/ ok)
    /\ pc' = [pc EXCEPT ![p] = "load"]
    /\ UNCHANGED <<fs, rawEnv, ADMIN, main, msg, seen>>

\* what readFile can do with the file as it is
ReadOutcomes == IF ~dir \/ fs[USERS_FILE].st = "absent" THEN {"ENOENT"} ELSE {"ok", "EACCES"}

\* lines 79-86
Load ==
  \E p \in Procs :
    /\ pc[p] = "load"
    /\ \E outcome \in ReadOutcomes :
         LET d == loadDb(outcome, fs[USERS_FILE])
         IN  /\ main' = [main EXCEPT ![p].db = d]
             /\ seen' = [seen EXCEPT ![p].read = outcome, ![p].loaded = d]
    /\ pc' = [pc EXCEPT ![p] = "find"]
    /\ UNCHANGED <<dir, fs, rawEnv, ADMIN, msg>>

\* lines 88-89
Find ==
  \E p \in Procs :
    /\ pc[p] = "find"
    /\ IF FindThrows(main[p].db, main[p].username.s)
       THEN /\ fatal(p, "TypeError") /\ UNCHANGED <<dir, fs>>
       ELSE /\ main' = [main EXCEPT ![p].now = toISOString(p),
                                    ![p].u = findUser(main[p].db, main[p].username.s)]
            /\ pc' = [pc EXCEPT ![p] = "derive"]
            /\ UNCHANGED <<dir, fs, rawEnv, ADMIN, msg, seen>>

\* lines 91-92: the salt, then scrypt, which resolves or rejects
Derive ==
  \E p \in Procs, ok \in BOOLEAN :
    /\ pc[p] = "derive"
    /\ IF ~ok
       THEN /\ fatal(p, "scrypt") /\ UNCHANGED <<dir, fs>>
       ELSE /\ main' = [main EXCEPT ![p].salt = randomBytes(p),
                                    ![p].derived = scryptAsync(main[p].password.s, randomBytes(p))]
            /\ pc' = [pc EXCEPT ![p] = "upsert"]
            /\ UNCHANGED <<dir, fs, rawEnv, ADMIN, msg, seen>>

\* lines 94-122
Upsert ==
  \E p \in Procs :
    /\ pc[p] = "upsert"
    /\ LET m == main[p]
       IN  IF m.u # 0 /\ UpdateThrows(m.db.users[m.u])
           THEN /\ fatal(p, "TypeError") /\ UNCHANGED <<dir, fs>>
           ELSE /\ main' = [main EXCEPT ![p].db =
                              upsert(m.db, m.u, randomUUID(p), m.username, m.email,
                                     m.salt, m.derived, m.now)]
                /\ pc' = [pc EXCEPT ![p] = "write"]
                /\ UNCHANGED <<dir, fs, rawEnv, ADMIN, msg, seen>>

\* What a writer finds of its own work after another process q has opened the
\* file at path for writing, which empties it (opened), or has written to it.
Disturbed(q, path, opened) ==
  [p \in Procs |->
     IF p # q /\ main[p].fd = path /\ (~opened \/ main[p].off > 0)
     THEN [main[p] EXCEPT !.dirty = TRUE] ELSE main[p]]

\* line 125, first half: writeFile opens the temp file, which creates it or
\* empties the file that is there, or fails (no directory, no space, no
\* permission)
WriteOpen ==
  \E p \in Procs, ok \in BOOLEAN :
    /\ pc[p] = "write"
    /\ IF ~dir \/ ~ok
       THEN /\ fatal(p, IF ~dir THEN "ENOENT" ELSE "EACCES") /\ UNCHANGED <<dir, fs>>
       ELSE LET tmp == TmpPath(USERS_FILE)
            IN  /\ fs' = [fs EXCEPT ![tmp] = TextFile(Serialize(main[p].db), 0)]
                /\ main' = [Disturbed(p, tmp, TRUE) EXCEPT ![p].fd = tmp, ![p].off = 0,
                                                          ![p].dirty = FALSE]
                /\ pc' = [pc EXCEPT ![p] = "writing"]
                /\ UNCHANGED <<dir, rawEnv, ADMIN, msg, seen>>

\* What the file holds after a writer has put the n-th piece of its text at its
\* own offset. A writer nobody disturbed extends its text. For one whose file
\* another writer has emptied or written, the outcome depends on the lengths of
\* the two texts: a first piece covers what was there or leaves its tail; the
\* closing newline lands right behind the other text or elsewhere; any other
\* piece lands behind a hole or amid the other text. Garbage stands for bytes
\* that are the text of no collection.
Written(file, text, n, dirty) ==
  IF ~dirty THEN {TextFile(text, n)}
  ELSE IF n = 1 THEN {Garbage, TextFile(text, 1)}
  ELSE IF n = SerChunks /\ file.st = "text" THEN {Garbage, TextFile(file.val, SerChunks)}
  ELSE {Garbage}

\* line 125, second half: the text is written piece by piece through the open
\* descriptor, wherever a rename has moved the file; a write can fail
WriteChunk ==
  \E p \in Procs, ok \in BOOLEAN :
    /\ pc[p] = "writing"
    /\ IF ~ok
       THEN /\ fatal(p, "ENOSPC") /\ UNCHANGED <<dir, fs>>
       ELSE LET at == main[p].fd
                n == main[p].off + 1
                last == n = SerChunks
            IN  /\ IF at = <<>> THEN fs' = fs
                   ELSE \E f \in Written(fs[at], Serialize(main[p].db), n, main[p].dirty) :
                          fs' = [fs EXCEPT ![at] = f]
                /\ main' = [Disturbed(p, at, FALSE) EXCEPT
                              ![p].off = n,
                              ![p].fd = IF last THEN <<>> ELSE at,
                              ![p].dirty = IF last THEN FALSE ELSE main[p].dirty]
                /\ pc' = [pc EXCEPT ![p] = IF last THEN "rename" ELSE "writing"]
                /\ UNCHANGED <<dir, rawEnv, ADMIN, msg, seen>>

\* The descriptors of the other writers after the file at from has been renamed
\* to to: a descriptor follows its file, and the file that was at to has no
\* name any more.
Moved(from, to) ==
  [p \in Procs |->
     IF main[p].fd = <<>> \/ from = to THEN main[p]
     ELSE IF main[p].fd = from THEN [main[p] EXCEPT !.fd = to]
     ELSE IF main[p].fd = to THEN [main[p] EXCEPT !.fd = <<>>]
     ELSE main[p]]

\* A faulty variant: the file is copied to its new name and stays at the old one.
Renamed_copied(files, from, to) == [files EXCEPT ![to] = files[from]]
\* fsp.rename(from, to): the file at from is at to and no longer at from
Renamed(files, from, to) ==
  IF from = to THEN files ELSE [files EXCEPT ![to] = files[from], ![from] = NoFile]

\* line 126: rename replaces the target in one step, or fails and changes nothing
Rename ==
  \E p \in Procs, ok \in BOOLEAN :
    /\ pc[p] = "rename"
    /\ LET tmp == TmpPath(USERS_FILE)
           renames == Cardinality({q \in Procs : seen[q].order > 0})
       IN  IF ~ok \/ fs[tmp].st = "absent"
           THEN /\ fatal(p, IF ~ok THEN "EACCES" ELSE "ENOENT") /\ UNCHANGED <<dir, fs>>
           ELSE /\ fs' = Renamed(fs, tmp, USERS_FILE)
                /\ main' = Moved(tmp, USERS_FILE)
                /\ seen' = [seen EXCEPT ![p].order = renames + 1]
                /\ pc' = [pc EXCEPT ![p] = "done"]
                /\ UNCHANGED <<dir, rawEnv, ADMIN, msg>>

\* The process is killed between two steps.
Interrupt ==
  \E p \in Procs :
    /\ pc[p] \in Running
    /\ pc' = [pc EXCEPT ![p] = "killed"]
    /\ main' = [main EXCEPT ![p] = NoMain]
    /\ rawEnv' = [rawEnv EXCEPT ![p] = NoEnv]
    /\ ADMIN' = [ADMIN EXCEPT ![p] = NoEnv]
    /\ seen' = Forget(p)
    /\ UNCHANGED <<dir, fs, msg>>

Next ==
  \/ Start \/ CheckEnv \/ Validate \/ Mkdir \/ Load \/ Find \/ Derive \/ Upsert
  \/ WriteOpen \/ WriteChunk \/ Rename \/ Interrupt

Spec == Init /\ [][Next]_vars

\* ------------------------------------------------------------ claims
canon == fs[USERS_FILE]
\* the run that started last
Latest(p) == pc[p] # "idle" /\ \A q \in Procs : q > p => pc[q] = "idle"
UsageMessages ==
  {"Missing ADMIN_USER.", "Missing ADMIN_PASS.",
   "Invalid ADMIN_USER (3-32 chars, letters/digits/._- only).",
   "Invalid ADMIN_PASS (min 8 chars).", "Invalid ADMIN_EMAIL."}

\* C1: at every point of every run (a kill between any two steps, a failed
\* write of the temp file and a failed rename included) the file at users.json
\* is the file the run found there, whole, until the rename; after the rename it
\* is the complete text of the collection the run serialized. It is never a
\* partly written text.
C1_CanonicalNeverPartial ==
  \A p \in Procs :
    Latest(p) =>
      IF pc[p] = "done" THEN canon = FullFile(Serialize(main[p].db))
      ELSE canon = seen[p].fs[USERS_FILE]

\* a write of the temp file failed part-way while users.json held a document
C1_Witness ==
  \E p \in Procs :
    /\ pc[p] = "exit1" /\ msg[p] = "ENOSPC"
    /\ fs[TmpPath(USERS_FILE)].st = "partial"
    /\ canon.st = "text" /\ canon.val.users # <<>>

RecordsOf(users, username) ==
  {i \in 1..Len(users) : users[i].v.t = "obj" /\ users[i].p["username"] = username}
Succeeded(p) == pc[p] = "done"
\* where the record the run wrote is: the target's index, or the end
TargetIndex(p) == IF main[p].u # 0 THEN main[p].u ELSE Len(main[p].db.users)

\* C3: after every successful run, whatever the store held, the persisted
\* collection holds exactly one record of the given username, and that record
\* has role "admin", disabled false and accessUntilMs null.
C3_ExactlyOneAdminRecord ==
  \A p \in Procs :
    (Latest(p) /\ Succeeded(p)) =>
      LET users == canon.val.users
          mine == RecordsOf(users, main[p].username)
      IN  /\ Cardinality(mine) = 1
          /\ \A i \in mine :
               /\ users[i].p["role"] = Str(<<"admin">>)
               /\ users[i].p["disabled"] = False
               /\ users[i].p["accessUntilMs"] = Null

C5_FreshCredentialStored ==
  \A p \in Procs :
    (Latest(p) /\ Succeeded(p)) =>
      LET users == canon.val.users
          i == TargetIndex(p)
      IN  /\ i \in 1..Len(users)
          /\ users[i].p["salt"] = HexSalt(randomBytes(p))
          /\ users[i].p["passHash"] = scryptAsync(main[p].password.s, randomBytes(p))

\* C6: the createdAt a run sets when it creates a record is the createdAt of
\* that record after every later run that updates it; more generally an update
\* keeps whatever createdAt the record it loaded holds.
C6_CreatedAtWriteOnce ==
  \A p \in Procs :
    (Succeeded(p) /\ main[p].u # 0) =>
      LET i == main[p].u
          old == seen[p].loaded.users[i]
          new == main[p].db.users[i]
      IN  /\ \A q \in Procs :
               (q < p /\ Succeeded(q) /\ main[q].u = 0 /\ Prop(old, "id") = randomUUID(q)) =>
                 /\ new.p["createdAt"] = toISOString(q)
                 /\ Latest(p) => canon.val.users[i].p["createdAt"] = toISOString(q)
          /\ Truthy(Prop(old, "createdAt")) =>
               /\ new.p["createdAt"] = Prop(old, "createdAt")
               /\ (Latest(p) /\ old.v.t = "obj") =>
                    canon.val.users[i].p["createdAt"] = Prop(old, "createdAt")

\* the second run updated the record the first run created
C6_Witness ==
  /\ Succeeded(1) /\ Succeeded(2) /\ main[1].u = 0 /\ main[2].u # 0
  /\ Prop(seen[2].loaded.users[main[2].u], "id") = randomUUID(1)
  /\ canon.val.users[main[2].u].p["createdAt"] = toISOString(1)

\* a file that is absent, is not JSON, or is JSON of another shape than an
\* object with an array-valued users
NotACollection(file) ==
  \/ file.st \in {"absent", "garbage", "partial"}
  \/ ~(file.val.v.t = "obj" /\ file.val.ut = "arr")

\* C7: when the backing file is absent, is not JSON, or parses to something
\* that is not an object with an array-valued users, a run with valid inputs
\* loads the empty collection, is not aborted by the load, the lookup or the
\* upsert, and when it completes the store holds exactly the new admin record
\* (and no other key).
C7_UnusableStoreStartsEmpty ==
  \A p \in Procs :
    (pc[p] # "idle" /\ seen[p].okEnv /\ NotACollection(seen[p].fs[USERS_FILE])) =>
      /\ seen[p].loaded = EmptyDb
      /\ msg[p] \notin UsageMessages \cup {"TypeError"}
      /\ pc[p] \in {"upsert", "write", "writing", "rename", "done"} => main[p].u = 0
      /\ (Latest(p) /\ Succeeded(p)) =>
           /\ canon.st = "text" /\ canon.written = SerChunks
           /\ canon.val.v = Obj /\ canon.val.ut = "arr" /\ canon.val.other = <<>>
           /\ Len(canon.val.users) = 1
           /\ canon.val.users[1].v = Obj
           /\ canon.val.users[1].p["username"] = main[p].username
           /\ canon.val.users[1].p["id"] = randomUUID(p)
           /\ canon.val.users[1].p["role"] = Str(<<"admin">>)
           /\ canon.val.users[1].p["createdAt"] = toISOString(p)

\* a run completed on a file that is not JSON, and one on JSON of another shape
C7_Witness ==
  \E p \in Procs :
    /\ Succeeded(p) /\ Latest(p) /\ seen[p].read = "ok"
    /\ seen[p].fs[USERS_FILE].st = "text" /\ seen[p].fs[USERS_FILE].val.ut = "num"
    /\ Len(canon.val.users) = 1

\* C8: a read error other than "file missing" is fatal: a run whose readFile
\* failed with EACCES does not complete, so it never replaces the store.
C8_ReadErrorIsFatal ==
  \A p \in Procs : seen[p].read = "EACCES" => ~Succeeded(p)

\* C9: malformed existing data never aborts the run: for valid inputs and any
\* readable content the lookup and the upsert complete without an error.
C9_MalformedDataNeverAborts ==
  \A p \in Procs : ~(pc[p] = "exit1" /\ msg[p] = "TypeError")

\* an email of white space only
BlankEmail(raw) == raw # <<>> /\ Trim(raw) = <<>>

\* C10 as stated: a run given an email of white space only is aborted as one
\* with an invalid email and never completes.
C10_BlankEmailRejected ==
  \A p \in Procs : BlankEmail(rawEnv[p].email) => ~Succeeded(p)

\* C10 as amended: an email of white space only is trimmed to the empty string
\* when the environment is read, and is from there on an email that was not
\* provided: validation passes it as null, and a run that completes wrote no
\* email of its own (the target keeps the email it had, a new record has none).
C10_BlankEmailIsNotProvided ==
  \A p \in Procs :
    (pc[p] # "idle" /\ BlankEmail(rawEnv[p].email)) =>
      /\ ADMIN[p].email = <<>>
      /\ main[p].email = Null
      /\ (Latest(p) /\ Succeeded(p)) =>
           canon.val.users[TargetIndex(p)].p["email"] =
             IF main[p].u = 0 THEN Undef
             ELSE seen[p].loaded.users[main[p].u].p["email"]

\* a run given an email of white space only completed
C10_Witness ==
  \E p \in Procs :
    /\ BlankEmail(rawEnv[p].email) /\ Succeeded(p) /\ Latest(p)
    /\ canon.val.users[TargetIndex(p)].p["username"] = main[p].username

\* what the record model of the specification takes as a valid value: a quota
\* that is a number, an unlocked and a contentTokens that are sequences, a
\* createdAt that is a timestamp (here: any non-empty string)
ValidQuota(v) == v.t = "num"
ValidSequence(v) == v.t = "arr"
ValidCreatedAt(v) == v.t = "str" /\ v.s # <<>>
\* a run that updated an existing element, from the upsert on
Updated(p) == pc[p] \in {"write", "writing", "rename", "done"} /\ main[p].u # 0

\* C12: a run that updates an existing record replaces each of quota, unlocked,
\* contentTokens and createdAt by its default (-1, the empty sequence, the
\* empty sequence, the current time) when the loaded record lacks it or holds a
\* malformed value, and keeps it as loaded when it holds a valid one.
C12_BackfillMissingOrMalformed ==
  \A p \in Procs :
    Updated(p) =>
      LET old == seen[p].loaded.users[main[p].u].p
          new == main[p].db.users[main[p].u].p
      IN  /\ new["quota"] = IF ValidQuota(old["quota"]) THEN old["quota"] ELSE Num(<<"-", "1">>)
          /\ new["unlocked"] = IF ValidSequence(old["unlocked"]) THEN old["unlocked"] ELSE Arr(<<>>)
          /\ new["contentTokens"] =
               IF ValidSequence(old["contentTokens"]) THEN old["contentTokens"] ELSE Arr(<<>>)
          /\ new["createdAt"] =
               IF ValidCreatedAt(old["createdAt"]) THEN old["createdAt"] ELSE main[p].now

\* C13: a run that updates an existing record and was given no email (none, or
\* white space only) leaves the record's email as loaded; the email changes
\* only in a run given an email that is valid, and is then that email trimmed
\* and lowercased. What the record holds in memory is what is persisted.
C13_EmailOnlyWhenSupplied ==
  \A p \in Procs :
    Updated(p) =>
      LET i == main[p].u
          old == seen[p].loaded.users[i]
          new == main[p].db.users[i]
          raw == rawEnv[p].email
      IN  /\ ~Provided(raw) => new.p["email"] = Prop(old, "email")
          /\ new.p["email"] # Prop(old, "email") => (Provided(raw) /\ OkEmail(raw))
          /\ Provided(raw) => new.p["email"] = Str(ToLowerCase(Trim(raw)))
          /\ (Latest(p) /\ Succeeded(p) /\ old.v.t = "obj") =>
               canon.val.users[i].p["email"] = new.p["email"]

\* a run given no email updated a record that holds one, and the store still
\* holds it
C13_Witness ==
  \E p \in Procs :
    /\ Succeeded(p) /\ Latest(p) /\ main[p].u # 0 /\ ~Provided(rawEnv[p].email)
    /\ seen[p].loaded.users[main[p].u].p["email"] = Str(<<"o","@","l",".","d">>)
    /\ canon.val.users[main[p].u].p["email"] = Str(<<"o","@","l",".","d">>)

\* a run that is past the lookup of line 89
Looked(p) == pc[p] \in {"derive", "upsert", "write", "writing", "rename", "done"}

\* C14: the target of the upsert is a record whose stored username is the
\* normalized input username, exactly; when the loaded collection holds no such
\* record (whatever elements without a username, with a null one or with one
\* that is no string it holds) there is no target and the run appends a new
\* record.
C14_ExactMatchOnly ==
  \A p \in Procs :
    Looked(p) =>
      LET users == seen[p].loaded.users
          i == main[p].u
      IN  /\ i # 0 => (users[i].v.t = "obj" /\ users[i].p["username"] = main[p].username)
          /\ RecordsOf(users, main[p].username) = {} =>
               /\ i = 0
               /\ pc[p] \in {"write", "writing", "rename", "done"} =>
                    /\ Len(main[p].db.users) = Len(users) + 1
                    /\ main[p].db.users[Len(users) + 1].p["username"] = main[p].username

\* the collection a file holds, as a reader that can read it gets it
StoredUsers(file) ==
  IF file.st = "text" /\ IsCollection(file.val) THEN file.val.users ELSE <<>>

\* C15: when the store a run finds holds several records of the given
\* username, a successful run updates the first of them in sequence order,
\* leaves each later one as it was, and appends no record.
C15_FirstDuplicateOnly ==
  \A p \in Procs :
    LET before == StoredUsers(seen[p].fs[USERS_FILE])
        dups == RecordsOf(before, main[p].username)
    IN  (Latest(p) /\ Succeeded(p) /\ Cardinality(dups) >= 2) =>
          /\ main[p].u = SetMin(dups)
          /\ Len(canon.val.users) = Len(before)
          /\ \A i \in dups \ {SetMin(dups)} : canon.val.users[i] = before[i]

\* a store whose file is a collection of records that each have a string for
\* a username
WellFormed(file) ==
  /\ file.st = "text" /\ file.written = SerChunks /\ IsCollection(file.val)
  /\ \A i \in 1..Len(file.val.users) :
       file.val.users[i].v.t = "obj" /\ file.val.users[i].p["username"].t = "str"

\* C17: a successful run on a well-formed store leaves every record but the
\* target as it was and where it was, removes none, and adds one record, at
\* the end, exactly when it has no target.
C17_OtherRecordsUntouched ==
  \A p \in Procs :
    (Latest(p) /\ Succeeded(p) /\ WellFormed(seen[p].fs[USERS_FILE])) =>
      LET before == seen[p].fs[USERS_FILE].val.users
          after == canon.val.users
      IN  /\ Len(after) = IF main[p].u = 0 THEN Len(before) + 1 ELSE Len(before)
          /\ \A i \in 1..Len(before) :
               i # main[p].u => (i <= Len(after) /\ after[i] = before[i])

\* a run that found a temp file when it started
FoundTemp(p) == pc[p] # "idle" /\ seen[p].fs[TmpPath(USERS_FILE)].st # "absent"
\* the collection a completed run writes, from users.json as it found it, what
\* readFile did and its inputs alone
FromStoreAlone(p) ==
  LET loaded == loadDb(seen[p].read, seen[p].fs[USERS_FILE])
      derived == scryptAsync(main[p].password.s, randomBytes(p))
  IN  upsert(loaded, findUser(loaded, main[p].username.s), randomUUID(p), main[p].username,
             main[p].email, randomBytes(p), derived, toISOString(p))

\* C18: a temp file an earlier run left behind changes nothing for the next
\* run: its rename finds the temp file it wrote itself, the store it leaves is
\* the one it would have left without the leftover (the upsert of users.json as
\* found, whole), and no temp file is left after its rename.
C18_LeftoverTempIgnored ==
  \A p \in Procs :
    (Latest(p) /\ FoundTemp(p)) =>
      /\ msg[p] # "ENOENT"
      /\ pc[p] \in {"find", "derive", "upsert", "write", "writing", "rename", "done"} =>
           main[p].db \in {seen[p].loaded, FromStoreAlone(p)}
      /\ Succeeded(p) =>
           /\ canon = FullFile(Serialize(FromStoreAlone(p)))
           /\ fs[TmpPath(USERS_FILE)] = NoFile

\* the run before was killed between its write and its rename and left its
\* whole text at users.json.tmp; the next run completed
C18_Witness ==
  \E p \in Procs \ {1} :
    /\ pc[p - 1] = "killed" /\ Latest(p) /\ Succeeded(p)
    /\ seen[p].fs[TmpPath(USERS_FILE)].st = "text"
    /\ seen[p].fs[TmpPath(USERS_FILE)].written = SerChunks
    /\ seen[p].fs[TmpPath(USERS_FILE)].val.users # canon.val.users
    /\ Len(canon.val.users) = 1

\* ------------------------------------------------ two runs at a time
\* Two processes run the script against one DATA_DIR with no order between
\* their steps. Both have usable inputs; neither is killed.
Racers == {1, 2}
RaceEnvs ==
  { Env(<<" ">> \o S_bob \o <<" ">>, <<"p","a","s","s"," ","w","o","r">>, <<>>),
    Env(S_undefined, <<"p","a","s","s"," ","w","o","r">>, <<" ","A","d","@","E","x",".","C","o"," ">>) }
RaceStores ==
  { NoFile, FullFile(EmptyDb),
    FullFile(Top(Obj, "arr", <<aliceRecord, bobRecord>>, <<"version">>)) }

RaceInit ==
  /\ dir = TRUE
  /\ \E store \in RaceStores : fs = [q \in Paths |-> IF q = USERS_FILE THEN store ELSE NoFile]
  /\ pc = [p \in Procs |-> "idle"]
  /\ rawEnv = [p \in Procs |-> NoEnv]
  /\ ADMIN = [p \in Procs |-> NoEnv]
  /\ main = [p \in Procs |-> NoMain]
  /\ msg = [p \in Procs |-> ""]
  /\ seen = [p \in Procs |-> NoSeen]

\* A racer is started, whatever the other one is doing: lines 13-15.
RaceStart ==
  \E p \in Racers, e \in RaceEnvs :
    /\ pc[p] = "idle"
    /\ rawEnv' = [rawEnv EXCEPT ![p] = e]
    /\ ADMIN' = [ADMIN EXCEPT ![p] = Env(readUser(e.user), readPass(e.pass), readEmail(e.email))]
    /\ seen' = [seen EXCEPT ![p] = [NoSeen EXCEPT !.fs = fs, !.dir = dir, !.okEnv = OkEnv(e)]]
    /\ pc' = [pc EXCEPT ![p] = "check"]
    /\ UNCHANGED <<dir, fs, main, msg>>

RaceNext ==
  \/ RaceStart \/ CheckEnv \/ Validate \/ Mkdir \/ Load \/ Find \/ Derive \/ Upsert
  \/ WriteOpen \/ WriteChunk \/ Rename

RaceSpec == RaceInit /\ [][RaceNext]_vars

\* the racer whose rename was the last one done
LastRenamer(w) == seen[w].order > 0 /\ \A q \in Racers : seen[q].order <= seen[w].order
\* the rename of line 126 found no temp file
RenameFoundNothing(p) == pc[p] = "exit1" /\ msg[p] = "ENOENT"

\* C16: when two runs race on one store, each rename that is reached finds its
\* temp file, and once both runs have finished users.json is the complete text
\* of the collection serialized by the run whose rename was done last.
C16_LastRenameWins ==
  /\ \A p \in Racers : ~RenameFoundNothing(p)
  /\ (\A p \in Racers : pc[p] \in Final) =>
       \A w \in Racers : LastRenamer(w) => canon = FullFile(Serialize(main[w].db))

\* ------------------------------------------- normalizeEmail on its own
\* The function of lines 40-57 applied to every string of up to MaxEmailLen
\* characters of EmailAlphabet and to some long ones: the input is held in
\* rawEnv[1].email, the result in main[1].email.
MaxEmailLen == 6
EmailAlphabet == {"a", "B", "@", ".", " "}
LongEmails ==
  { Rep("a", LocalMax) \o <<"@","a",".","B">>,
    Rep("a", LocalMax + 1) \o <<"@","a",".","B">>,
    <<"a","@">> \o Rep("b", EmailMax - 4) \o <<".","c">>,
    <<"a","@">> \o Rep("b", EmailMax - 3) \o <<".","c">>,
    <<"\t","A","!","@","b","-","c",".","d","\n">>,
    <<"a","@","b","_","c",".","d">> }
EmailInputs == UNION {[1..n -> EmailAlphabet] : n \in 0..MaxEmailLen} \cup LongEmails

EmailInit ==
  /\ dir = FALSE
  /\ fs = [q \in Paths |-> NoFile]
  /\ pc = [p \in Procs |-> "idle"]
  /\ \E raw \in EmailInputs : rawEnv = [p \in Procs |-> IF p = 1 THEN Env(<<>>, <<>>, raw) ELSE NoEnv]
  /\ ADMIN = [p \in Procs |-> NoEnv]
  /\ main = [p \in Procs |-> NoMain]
  /\ msg = [p \in Procs |-> ""]
  /\ seen = [p \in Procs |-> NoSeen]

\* normalizeEmail(raw) is called and returns
CallNormalizeEmail ==
  /\ pc[1] = "idle"
  /\ main' = [main EXCEPT ![1].email = normalizeEmail(rawEnv[1].email)]
  /\ pc' = [pc EXCEPT ![1] = "returned"]
  /\ UNCHANGED <<dir, fs, rawEnv, ADMIN, msg, seen>>

EmailNext == CallNormalizeEmail
EmailSpec == EmailInit /\ [][EmailNext]_vars

\* the part of s after its first "@"
DomainPart(s) == SubSeq(s, IndexOf(s, "@") + 2, Len(s))
\* what the claim says is rejected, stated on the string itself
NotOneAt(s) == Cardinality({i \in 1..Len(s) : s[i] = "@"}) # 1
BadDomain(s) ==
  LET d == DomainPart(s)
  IN  \/ \A i \in 1..Len(d) : d[i] # "."
      \/ \E i \in 1..(Len(d) - 1) : d[i] = "." /\ d[i + 1] = "."
      \/ (Len(d) > 0 /\ (d[1] = "." \/ d[Len(d)] = "."))

\* C11: normalizeEmail returns null for every string that does not hold exactly
\* one "@", and for every string whose domain part has no dot, has two dots in
\* a row, or starts or ends with a dot; whatever it returns for a string it
\* accepts is that string trimmed and lowercased.
C11_EmailRejectsAndNormalizes ==
  pc[1] = "returned" =>
    LET raw == rawEnv[1].email
        r == main[1].email
    IN  /\ (NotOneAt(raw) \/ BadDomain(raw)) => r = Null
        /\ r # Null => r = Str(ToLowerCase(Trim(raw)))

\* an address with an upper-case letter and white space around it was accepted
C11_Witness ==
  /\ pc[1] = "returned"
  /\ rawEnv[1].email = <<" ","a","@","B",".","a">>
  /\ main[1].email = Str(<<"a","@","b",".","a">>)

====
